---- MODULE Spec2Model ----
(***************************************************************************)
(* ImagesFromDataFrame (GANDLF/data/ImagesFromDataFrame.py): the assembly  *)
(* of torchio subjects from a manifest dataframe, the resized-image cache, *)
(* the transform chain, the SubjectsDataset and the patch Queue.           *)
(*                                                                         *)
(* One call of ImagesFromDataFrame is a run of the state machine below;    *)
(* pc is the position in the function body.  The file system (fs) is the   *)
(* only state that survives from one call to the next.                     *)
(***************************************************************************)
EXTENDS Integers, Sequences, FiniteSets, TLC

\* ------------------------------------------------------------- bounds
\* rows of the manifest (num_row), channel headers, calls of the function
NumRows == 2
NumChannels == 2
MaxCalls == 2

\* ------------------------------------------------------------- inputs
None == "None"

Rows == 1..NumRows
Channels == 1..NumChannels

\* parameters["data_preprocessing"]: None, or a mapping whose keys are read
\* in order; a value "None" is a directive that is present but null.
PreprocessingInputs ==
    { [is_none |-> TRUE, items |-> <<>>],
      [is_none |-> FALSE, items |-> <<[key |-> "resize", value |-> None]>>],
      [is_none |-> FALSE, items |-> <<[key |-> "resize", value |-> "size"]>>],
      [is_none |-> FALSE, items |-> <<[key |-> "normalize", value |-> "on"],
                                      [key |-> "resize_images", value |-> "size"]>>] }

\* parameters["data_augmentation"]: None, or a mapping keyed by augmentation name
AugmentationInputs ==
    { [is_none |-> TRUE, names |-> <<>>],
      [is_none |-> FALSE, names |-> <<"Affine", "not_an_aug">>],
      [is_none |-> FALSE, names |-> <<"blur">>] }

\* loader_type, after line 58 has replaced None by ""
LoaderTypeInputs == { "", "train" }

\* parameters["patch_sampler"]["type"]
SamplerTypeInputs == { "uniform", "labelsampler", "weighted", "Uniform", "random" }

\* the caller's dataframe before the call: column labels, row index and the
\* cells of the subject-id column
PositionalColumns == [c \in 1..(NumChannels + 2) |-> ToString(c - 1)]
NamedColumns == [c \in 1..(NumChannels + 2) |->
                   IF c = 1 THEN "SubjectID"
                   ELSE IF c = NumChannels + 2 THEN "Label"
                   ELSE "Channel"]
PositionalIndex == [r \in Rows |-> r - 1]
SplitIndex == [r \in Rows |-> 2 * r + 1]
SubjectIdCells == [r \in Rows |-> 100 + r]
DataframeInputs ==
    { [columns |-> PositionalColumns, index |-> PositionalIndex, ids |-> SubjectIdCells],
      [columns |-> NamedColumns, index |-> SplitIndex, ids |-> SubjectIdCells] }

\* voxel values of a label map, before resizing (two voxels along one axis)
LabelImages == { <<0, 2>>, <<1, 1>> }

\* ------------------------------------------------------------- helpers
\* global_sampler_dict: the recognised sampler names
global_sampler_dict ==
    [ k \in { "uniform", "uniformsampler", "uniformsample",
              "label", "labelsampler", "labelsample",
              "weighted", "weightedsampler", "weightedsample" } |->
        IF k \in { "uniform", "uniformsampler", "uniformsample" } THEN "UniformSampler"
        ELSE IF k \in { "label", "labelsampler", "labelsample" } THEN "LabelSampler"
        ELSE "WeightedSampler" ]

\* global_augs_dict: the registry of augmentation constructors, by lower-case name
global_augs_dict == { "affine", "blur", "noise" }

\* str.lower() on the augmentation names used here
Lower(s) == IF s = "Affine" THEN "affine" ELSE s

\* range(0, n) as the labels pandas shows for a positional axis (and
\* range(1, n + 1) for the index)
RangeColumns(n) == [c \in 1..n |-> ToString(c - 1)]
RangeIndexFromOne(n) == [r \in 1..n |-> r]
RangeIndex(n) == [r \in 1..n |-> r - 1]

\* str(dataframe[subjectIDHeader][patient]): the subject id of a row
SubjectIdOf(df, patient) == ToString(df.ids[patient])

\* get_filename_extension_sanitized(str(dataframe[channel][patient]))
ExtensionOf(patient, channel) == IF channel = 1 THEN ".nii.gz" ELSE ".nii"

\* the loop at lines 95-102: the first resize key with a non-null value wins
RECURSIVE ResizeDirective(_, _)
ResizeDirective(preprocessing, i) ==
    IF preprocessing.is_none \/ i > Len(preprocessing.items) THEN None
    ELSE IF preprocessing.items[i].key \in {"resize", "resize_image", "resize_images"}
            /\ preprocessing.items[i].value # None
         THEN preprocessing.items[i].value
         ELSE ResizeDirective(preprocessing, i + 1)

\* resize_images_flag as lines 93-102 leave it
ResizeImagesFlag(preprocessing) == ResizeDirective(preprocessing, 1) # None

\* the interpolators resize_image is called with: the label call names
\* sitk.sitkNearestNeighbor (line 205), the channel call names none (line 163)
\* and so gets resize_image's default
NearestNeighbor == "sitkNearestNeighbor"
DefaultInterpolator == "sitkLinear"
ChannelInterpolator == DefaultInterpolator
LabelInterpolatorDefault == DefaultInterpolator
LabelInterpolator == NearestNeighbor

\* GANDLF.utils.resize_image on a two-voxel axis resized to three voxels:
\* the middle output voxel lies half-way between the two input voxels
resize_image(img, interpolator) ==
    IF interpolator = NearestNeighbor
    THEN << img[1], img[2], img[2] >>
    ELSE << img[1], (img[1] + img[2]) \div 2, img[2] >>

\* the distinct voxel values of an image
Values(img) == { img[i] : i \in DOMAIN img }

\* voxel values of every channel image of the manifest
ScalarImageData == << 0, 4 >>

\* save_path of _save_resized_images (lines 120-127), as its components:
\* <output_dir>/<loader_type>_resized_images/<subject_id>_<channel_str>_resized<extension>
SavePath(subject_id, channel_str, loader_type, extension) ==
    << loader_type, "_resized_images/", subject_id, "_", channel_str, "_resized", extension >>

\* _save_resized_images (lines 105-129) on the file system fsys at time now:
\* the image is written only if no file is at save_path (and the same
\* without the test of line 128)
save_resized_images_always(fsys, now, subject_id, channel_str, loader_type, extension) ==
    LET save_path == SavePath(subject_id, channel_str, loader_type, extension)
    IN  [ p \in DOMAIN fsys \cup {save_path} |-> IF p = save_path THEN now ELSE fsys[p] ]
save_resized_images(fsys, now, subject_id, channel_str, loader_type, extension) ==
    LET save_path == SavePath(subject_id, channel_str, loader_type, extension)
    IN  IF save_path \in DOMAIN fsys THEN fsys ELSE fsys @@ (save_path :> now)

\* list.append, and the same putting the item first
append_first(list, item) == << item >> \o list
append(list, item) == Append(list, item)

\* ------------------------------------------------------------- state
VARIABLES
    pc,                   \* position in the body of ImagesFromDataFrame
    call,                 \* number of the current call of the function
    caller_dataframe,     \* the labels of the dataframe as the caller passed it
    dataframe,            \* the labels of that same dataframe object now
    parameters,           \* the parameters read at lines 60-69 and the arguments
    resize_images_flag,
    patient,              \* loop variable of line 134, 1-based
    channel,              \* loop variable of line 145, 1-based
    skip_subject,
    subject_dict,
    img_resized,          \* the last result of resize_image and the call that made it
    subjects_list,
    subjects_with_error,
    fs,                   \* files under <output_dir>: save_path -> time of writing
    clock,                \* the time the next write is stamped with
    transformations_list,
    transform,            \* the chain get_transforms_for_preprocessing returned
    subjects_dataset,
    sampler_obj,
    patches_queue,
    result,               \* what the call returned or raised
    missing_rows,         \* rows seen with a channel or label path that is no file
    failed_check_rows     \* rows whose perform_sanity_check_on_subject raised

vars == << pc, call, caller_dataframe, dataframe, parameters, resize_images_flag,
           patient, channel, skip_subject, subject_dict, img_resized, subjects_list,
           subjects_with_error, fs, clock, transformations_list, transform, subjects_dataset,
           sampler_obj, patches_queue, result, missing_rows, failed_check_rows >>

\* the arguments train and loader_type and the entries of the parameters
\* dictionary that the assembly loop reads
ParameterInputs ==
    [ train : BOOLEAN, loader_type : LoaderTypeInputs,
      preprocessing : PreprocessingInputs,
      memory_save_mode : BOOLEAN, enable_padding : BOOLEAN, in_memory : BOOLEAN,
      has_label_header : BOOLEAN ]

\* values of the locals before they are assigned
NoSubjectDict ==
    [ subject_id |-> "", images |-> <<>>, spacing |-> "unset", label |-> "unset",
      path_to_metadata |-> "unset", values |-> <<>> ]
NoImage == [ role |-> "none", interpolator |-> "none", source |-> <<>>, data |-> <<>> ]
NoTransform == [ built |-> FALSE, train |-> FALSE, augmentations |-> <<>>,
                 apply_zero_crop |-> FALSE ]
NoDataset == [ built |-> FALSE, subjects |-> <<>>, transform |-> NoTransform ]
NoSampler == [ built |-> FALSE, type |-> "none", class |-> "none", options |-> "none" ]
NoQueue == [ built |-> FALSE, subjects_dataset |-> NoDataset, sampler |-> NoSampler,
             shuffle_subjects |-> FALSE, shuffle_patches |-> FALSE ]

Init ==
    /\ pc = "start"
    /\ call = 1
    /\ caller_dataframe \in DataframeInputs
    /\ dataframe = caller_dataframe
    /\ parameters \in ParameterInputs
    /\ resize_images_flag = FALSE
    /\ patient = 1
    /\ channel = 1
    /\ skip_subject = FALSE
    /\ subject_dict = NoSubjectDict
    /\ img_resized = NoImage
    /\ subjects_list = <<>>
    /\ subjects_with_error = <<>>
    /\ fs = <<>>
    /\ clock = 1
    /\ transformations_list = <<>>
    /\ transform = NoTransform
    /\ subjects_dataset = NoDataset
    /\ sampler_obj = NoSampler
    /\ patches_queue = NoQueue
    /\ result = "running"
    /\ missing_rows = {}
    /\ failed_check_rows = {}

\* ------------------------------------------------------------- actions
\* lines 58-102 and 132-133: the arguments and parameters are read, the
\* dataframe is relabelled, the two lists are created, the resize directive
\* is looked up and the log file is opened
Setup ==
    /\ pc = "start"
    /\ resize_images_flag' = ResizeImagesFlag(parameters.preprocessing)
    /\ dataframe' = [ dataframe EXCEPT !.columns = RangeColumns(Len(dataframe.columns)),
                                        !.index = RangeIndex(Len(dataframe.index)) ]
    /\ subjects_list' = <<>>
    /\ subjects_with_error' = <<>>
    /\ patient' = 1
    /\ pc' = "row"
    /\ UNCHANGED << call, caller_dataframe, parameters, channel, skip_subject,
                    subject_dict, img_resized, fs, clock, transformations_list,
                    transform, subjects_dataset, sampler_obj, patches_queue, result,
                    missing_rows, failed_check_rows >>

\* lines 134-143: the next row is taken and its subject_dict started
BeginRow ==
    /\ pc = "row"
    /\ patient <= NumRows
    /\ subject_dict' = [ NoSubjectDict EXCEPT !.subject_id = SubjectIdOf(dataframe, patient) ]
    /\ skip_subject' = FALSE
    /\ channel' = 1
    /\ pc' = "channel"
    /\ UNCHANGED << call, caller_dataframe, dataframe, parameters, resize_images_flag,
                    patient, img_resized, subjects_list, subjects_with_error, fs, clock,
                    transformations_list, transform, subjects_dataset, sampler_obj, patches_queue,
                    result, missing_rows, failed_check_rows >>

\* where the channel loop goes after one channel
AfterChannel == IF channel = NumChannels THEN "label" ELSE "channel"

\* lines 145-183 for one channel header whose image can be read: the path is
\* tested, the image attached, the spacing recorded and the image resized
LoadChannel ==
    /\ pc = "channel"
    /\ \E is_file \in BOOLEAN :
         LET resized == [ role |-> "channel", interpolator |-> ChannelInterpolator,
                          source |-> ScalarImageData,
                          data |-> resize_image(ScalarImageData, ChannelInterpolator) ]
             in_place == resize_images_flag /\ ~parameters.memory_save_mode
             saved == resize_images_flag /\ parameters.memory_save_mode
         IN  /\ skip_subject' = (skip_subject \/ ~is_file)
             /\ missing_rows' = IF is_file THEN missing_rows ELSE missing_rows \cup {patient}
             /\ subject_dict' =
                  [ subject_dict EXCEPT
                      !.images = append(@, IF in_place THEN "resized" ELSE "original"),
                      !.spacing = IF in_place THEN "resized"
                                  ELSE IF @ = "unset" THEN "file" ELSE @ ]
             /\ img_resized' = IF resize_images_flag THEN resized ELSE img_resized
             /\ fs' = IF saved
                      THEN save_resized_images(fs, clock, subject_dict.subject_id,
                                               ToString(channel), parameters.loader_type,
                                               ExtensionOf(patient, channel))
                      ELSE fs
             /\ clock' = IF fs' # fs THEN clock + 1 ELSE clock
    /\ pc' = AfterChannel
    /\ channel' = IF channel = NumChannels THEN channel ELSE channel + 1
    /\ UNCHANGED << call, caller_dataframe, dataframe, parameters, resize_images_flag,
                    patient, subjects_list, subjects_with_error, transformations_list,
                    transform, subjects_dataset, sampler_obj, patches_queue, result,
                    failed_check_rows >>

\* lines 147-159 for a channel path that is no file, when the image library
\* refuses it: skip_subject is set at line 148, then torchio.ScalarImage or
\* ReadImageInformation raises, outside any try, and the call ends
LoadChannelRaises ==
    /\ pc = "channel"
    /\ skip_subject' = TRUE
    /\ missing_rows' = missing_rows \cup {patient}
    /\ result' = "FileNotFoundError"
    /\ pc' = "raised"
    /\ UNCHANGED << call, caller_dataframe, dataframe, parameters, resize_images_flag,
                    patient, channel, subject_dict, img_resized, subjects_list,
                    subjects_with_error, fs, clock, transformations_list,
                    transform, subjects_dataset, sampler_obj, patches_queue, failed_check_rows >>

\* lines 191-232 when the label image can be read (or no label header is
\* configured): the label is attached and resized, the provenance path set,
\* and the values to predict are copied
LoadLabel ==
    /\ pc = "label"
    /\ \E is_file \in BOOLEAN, label_data \in LabelImages :
         LET has_label == parameters.has_label_header
             resized == [ role |-> "label", interpolator |-> LabelInterpolator,
                          source |-> label_data,
                          data |-> resize_image(label_data, LabelInterpolator) ]
             resize == has_label /\ resize_images_flag
             in_place == resize /\ ~parameters.memory_save_mode
             saved == resize /\ parameters.memory_save_mode
         IN  /\ has_label \/ (is_file /\ label_data = CHOOSE d \in LabelImages : TRUE)
             /\ skip_subject' = (skip_subject \/ (has_label /\ ~is_file))
             /\ missing_rows' = IF has_label /\ ~is_file
                                THEN missing_rows \cup {patient} ELSE missing_rows
             /\ subject_dict' =
                  [ subject_dict EXCEPT
                      !.label = IF ~has_label THEN "NA"
                                ELSE IF in_place THEN "resized" ELSE "original",
                      !.path_to_metadata = IF has_label THEN "label" ELSE "channel",
                      !.values = << "value_0" >> ]
             /\ img_resized' = IF resize THEN resized ELSE img_resized
             /\ fs' = IF saved
                      THEN save_resized_images(fs, clock, subject_dict.subject_id,
                                               "label", parameters.loader_type,
                                               ExtensionOf(patient, channel))
                      ELSE fs
             /\ clock' = IF fs' # fs THEN clock + 1 ELSE clock
    /\ pc' = "assemble"
    /\ UNCHANGED << call, caller_dataframe, dataframe, parameters, resize_images_flag,
                    patient, channel, subjects_list, subjects_with_error,
                    transformations_list, transform, subjects_dataset, sampler_obj,
                    patches_queue, result, failed_check_rows >>

\* lines 191-198 for a label path that is no file, when the image library
\* refuses it: skip_subject is set at line 193, then torchio.LabelMap raises
LoadLabelRaises ==
    /\ pc = "label"
    /\ parameters.has_label_header
    /\ skip_subject' = TRUE
    /\ missing_rows' = missing_rows \cup {patient}
    /\ result' = "FileNotFoundError"
    /\ pc' = "raised"
    /\ UNCHANGED << call, caller_dataframe, dataframe, parameters, resize_images_flag,
                    patient, channel, subject_dict, img_resized, subjects_list,
                    subjects_with_error, fs, clock, transformations_list, transform,
                    subjects_dataset, sampler_obj, patches_queue, failed_check_rows >>

\* line 235 with skip_subject set: nothing is built for the row
SkipSubject ==
    /\ pc = "assemble"
    /\ skip_subject
    /\ patient' = patient + 1
    /\ pc' = "row"
    /\ UNCHANGED << call, caller_dataframe, dataframe, parameters, resize_images_flag,
                    channel, skip_subject, subject_dict, img_resized, subjects_list,
                    subjects_with_error, fs, clock, transformations_list, transform,
                    subjects_dataset, sampler_obj, patches_queue, result, missing_rows,
                    failed_check_rows >>

\* lines 235-271 with skip_subject clear: the Subject is built and checked
\* (an exception of the check is caught and the id recorded), then padded,
\* loaded and appended
AssembleSubject ==
    /\ pc = "assemble"
    /\ ~skip_subject
    /\ \E check_raises \in BOOLEAN :
         LET subject == [ subject_dict |-> subject_dict,
                          padded |-> parameters.enable_padding,
                          loaded |-> parameters.in_memory ]
         IN  /\ subjects_with_error' =
                  IF check_raises
                  THEN append(subjects_with_error, subject.subject_dict.subject_id)
                  ELSE subjects_with_error
             /\ failed_check_rows' =
                  IF check_raises THEN failed_check_rows \cup {patient}
                  ELSE failed_check_rows
             /\ subjects_list' = append(subjects_list, subject)
    /\ patient' = patient + 1
    /\ pc' = "row"
    /\ UNCHANGED << call, caller_dataframe, dataframe, parameters, resize_images_flag,
                    channel, skip_subject, subject_dict, img_resized, fs, clock,
                    transformations_list, transform, subjects_dataset, sampler_obj,
                    patches_queue, result, missing_rows >>

\* the augmentation names of the mapping whose lower-case form is registered
RECURSIVE RegisteredAugmentations(_, _)
RegisteredAugmentations(names, i) ==
    IF i > Len(names) THEN <<>>
    ELSE IF Lower(names[i]) \in global_augs_dict
         THEN << Lower(names[i]) >> \o RegisteredAugmentations(names, i + 1)
         ELSE RegisteredAugmentations(names, i + 1)

\* lines 277-286: the augmentations that enter the chain
TransformationsList(train, augmentations) ==
    IF train /\ ~augmentations.is_none
    THEN RegisteredAugmentations(augmentations.names, 1)
    ELSE <<>>

\* lines 273-290, after the last row: the assertion on subjects_with_error
\* (a list is never None, so it passes), the augmentations and the chain
BuildTransforms ==
    /\ pc = "row"
    /\ patient > NumRows
    /\ \E augmentations \in AugmentationInputs, apply_zero_crop \in BOOLEAN :
         /\ transformations_list' = TransformationsList(parameters.train, augmentations)
         /\ transform' = [ built |-> TRUE, train |-> parameters.train,
                           augmentations |-> transformations_list',
                           apply_zero_crop |-> apply_zero_crop ]
    /\ pc' = "wrap"
    /\ UNCHANGED << call, caller_dataframe, dataframe, parameters, resize_images_flag,
                    patient, channel, skip_subject, subject_dict, img_resized,
                    subjects_list, subjects_with_error, fs, clock, subjects_dataset,
                    sampler_obj, patches_queue, result, missing_rows, failed_check_rows >>

\* line 293: where the call goes once the dataset is built (and the same
\* with the test of train left out)
AfterWrapAlwaysSamples(train) == "sampler"
AfterWrap(train) == IF ~train THEN "returned" ELSE "sampler"

\* lines 292-294: the SubjectsDataset is built, and returned unless training
WrapDataset ==
    /\ pc = "wrap"
    /\ subjects_dataset' = [ built |-> TRUE, subjects |-> subjects_list,
                             transform |-> transform ]
    /\ pc' = AfterWrap(parameters.train)
    /\ result' = IF pc' = "returned" THEN "SubjectsDataset" ELSE result
    /\ UNCHANGED << call, caller_dataframe, dataframe, parameters, resize_images_flag,
                    patient, channel, skip_subject, subject_dict, img_resized,
                    subjects_list, subjects_with_error, fs, clock, transformations_list,
                    transform, sampler_obj, patches_queue, missing_rows,
                    failed_check_rows >>

\* line 297: global_sampler_dict[type] succeeds for the keys of the dict
SamplerTypeKnown(type) == type \in DOMAIN global_sampler_dict

\* lines 297-314: the options the sampler is finally built with
SamplerOptions(type, biased_sampling) ==
    IF type \in { "weighted", "weightedsampler", "weightedsample" }
    THEN "probability_map=label"
    ELSE IF type \in { "label", "labelsampler", "labelsample" } /\ biased_sampling
         THEN "label_probabilities"
         ELSE "patch_size"

\* lines 296-314 for a sampler type that is a key of global_sampler_dict
InitSampler ==
    /\ pc = "sampler"
    /\ \E type \in SamplerTypeInputs, biased_sampling \in BOOLEAN :
         /\ SamplerTypeKnown(type)
         /\ sampler_obj' = [ built |-> TRUE, type |-> type,
                             class |-> global_sampler_dict[type],
                             options |-> SamplerOptions(type, biased_sampling) ]
    /\ pc' = "queue"
    /\ UNCHANGED << call, caller_dataframe, dataframe, parameters, resize_images_flag,
                    patient, channel, skip_subject, subject_dict, img_resized,
                    subjects_list, subjects_with_error, fs, clock, transformations_list,
                    transform, subjects_dataset, patches_queue, result, missing_rows,
                    failed_check_rows >>

\* line 297 with the lookup put off until the queue first samples
InitSamplerDeferred ==
    /\ pc = "sampler"
    /\ \E type \in SamplerTypeInputs :
         /\ ~SamplerTypeKnown(type)
         /\ sampler_obj' = [ NoSampler EXCEPT !.built = TRUE, !.type = type ]
    /\ pc' = "queue"
    /\ UNCHANGED << call, caller_dataframe, dataframe, parameters, resize_images_flag,
                    patient, channel, skip_subject, subject_dict, img_resized,
                    subjects_list, subjects_with_error, fs, clock, transformations_list,
                    transform, subjects_dataset, patches_queue, result, missing_rows,
                    failed_check_rows >>

\* line 297 for any other sampler type: the dict lookup raises KeyError
InitSamplerRaises ==
    /\ pc = "sampler"
    /\ \E type \in SamplerTypeInputs :
         /\ ~SamplerTypeKnown(type)
         /\ sampler_obj' = [ NoSampler EXCEPT !.type = type ]
    /\ result' = "KeyError"
    /\ pc' = "raised"
    /\ UNCHANGED << call, caller_dataframe, dataframe, parameters, resize_images_flag,
                    patient, channel, skip_subject, subject_dict, img_resized,
                    subjects_list, subjects_with_error, fs, clock, transformations_list,
                    transform, subjects_dataset, patches_queue, missing_rows,
                    failed_check_rows >>

\* lines 316-326: the Queue is built over subjects_dataset and returned
BuildQueue ==
    /\ pc = "queue"
    /\ patches_queue' = [ built |-> TRUE, subjects_dataset |-> subjects_dataset,
                          sampler |-> sampler_obj, shuffle_subjects |-> TRUE,
                          shuffle_patches |-> TRUE ]
    /\ result' = "Queue"
    /\ pc' = "returned"
    /\ UNCHANGED << call, caller_dataframe, dataframe, parameters, resize_images_flag,
                    patient, channel, skip_subject, subject_dict, img_resized,
                    subjects_list, subjects_with_error, fs, clock, transformations_list,
                    transform, subjects_dataset, sampler_obj, missing_rows,
                    failed_check_rows >>

\* the function is called again with the same arguments: the same dataframe
\* object and parameters, and the files the earlier calls left under the
\* output directory
NextCall ==
    /\ pc \in { "returned", "raised" }
    /\ call < MaxCalls
    /\ call' = call + 1
    /\ caller_dataframe' = dataframe
    /\ resize_images_flag' = FALSE
    /\ patient' = 1
    /\ channel' = 1
    /\ skip_subject' = FALSE
    /\ subject_dict' = NoSubjectDict
    /\ img_resized' = NoImage
    /\ subjects_list' = <<>>
    /\ subjects_with_error' = <<>>
    /\ transformations_list' = <<>>
    /\ transform' = NoTransform
    /\ subjects_dataset' = NoDataset
    /\ sampler_obj' = NoSampler
    /\ patches_queue' = NoQueue
    /\ result' = "running"
    /\ missing_rows' = {}
    /\ failed_check_rows' = {}
    /\ pc' = "start"
    /\ UNCHANGED << dataframe, parameters, fs, clock >>

Next ==
    \/ Setup
    \/ BeginRow
    \/ LoadChannel
    \/ LoadChannelRaises
    \/ LoadLabel
    \/ LoadLabelRaises
    \/ SkipSubject
    \/ AssembleSubject
    \/ BuildTransforms
    \/ WrapDataset
    \/ InitSampler
    \/ InitSamplerRaises
    \/ BuildQueue
    \/ NextCall

Spec == Init /\ [][Next]_vars

\* the function body is sequential code: a call that can take its next
\* step takes it
FairSpec == Spec /\ WF_vars(Next)

\* ------------------------------------------------------------- properties
\* the assembly loop of the current call has visited every row
AssemblyDone == patient > NumRows

\* the subject ids held by a list of subjects, and by the error log
SubjectIds(subjects) == { subjects[i].subject_dict.subject_id : i \in DOMAIN subjects }
ErrorIds == { subjects_with_error[i] : i \in DOMAIN subjects_with_error }

\* C1: once the assembly loop has processed the manifest, every row whose
\* sanity check raised has its subject id in subjects_with_error and no
\* subject of that id in subjects_list, nor in the dataset or queue returned.
C1_ErrorLogDisjointFromSubjectList ==
    AssemblyDone =>
        \A r \in failed_check_rows :
            /\ SubjectIdOf(dataframe, r) \in ErrorIds
            /\ SubjectIdOf(dataframe, r) \notin SubjectIds(subjects_list)
            /\ SubjectIdOf(dataframe, r) \notin SubjectIds(subjects_dataset.subjects)

\* C2: after assembly, every row with a channel or label path that is no
\* existing file has its subject id in subjects_with_error and no subject
\* in subjects_list.
C2_MissingFileRowsLoggedAndExcluded ==
    AssemblyDone =>
        \A r \in missing_rows :
            /\ SubjectIdOf(dataframe, r) \in ErrorIds
            /\ SubjectIdOf(dataframe, r) \notin SubjectIds(subjects_list)

\* C3: a failing row (missing file, or an exception of the sanity check)
\* never makes the assembly loop raise, and every row that does not fail is
\* still visited, assembled and appended to subjects_list.
C3_RowFailureNeverAbortsBatch ==
    /\ result # "FileNotFoundError"
    /\ (pc \in { "returned", "raised" }) =>
           \A r \in Rows \ (missing_rows \cup failed_check_rows) :
               SubjectIdOf(dataframe, r) \in SubjectIds(subjects_list)

\* C4: when every referenced file exists and every subject passes the
\* sanity check, subjects_list holds exactly one subject per manifest row,
\* in row order, whatever the resize, memory_save_mode, enable_padding and
\* in_memory settings are.
C4_OneSubjectPerRowInOrder ==
    (AssemblyDone /\ missing_rows = {} /\ failed_check_rows = {}) =>
        /\ Len(subjects_list) = NumRows
        /\ \A r \in Rows :
               subjects_list[r].subject_dict.subject_id = SubjectIdOf(dataframe, r)

C4_Witness ==
    /\ AssemblyDone /\ missing_rows = {} /\ failed_check_rows = {}
    /\ Len(subjects_list) = NumRows
    /\ resize_images_flag /\ parameters.memory_save_mode
    /\ parameters.enable_padding /\ parameters.in_memory

\* C5 as claimed: with train = True and an unrecognised sampler type the
\* call fails before any data loading: no manifest row has been read, no
\* image loaded or resized and no resized file written when the error is
\* raised.
C5_SamplerErrorBeforeLoading ==
    result = "KeyError" =>
        /\ patient = 1
        /\ subjects_list = <<>>
        /\ img_resized = NoImage

\* C5 as amended: with train = True and an unrecognised sampler type the
\* call never builds or returns a queue; the error is raised by the sampler
\* lookup itself, after the assembly loop has visited every row and the
\* dataset has been built, and before any sampler or queue exists.
C5_SamplerErrorAfterAssembly ==
    /\ result = "KeyError" =>
           /\ parameters.train
           /\ sampler_obj.type \notin DOMAIN global_sampler_dict
           /\ AssemblyDone
           /\ subjects_dataset.built
           /\ ~sampler_obj.built
           /\ ~patches_queue.built
    /\ sampler_obj.built => sampler_obj.type \in DOMAIN global_sampler_dict
    /\ patches_queue.built => patches_queue.sampler.type \in DOMAIN global_sampler_dict

C5_Witness ==
    /\ result = "KeyError"
    /\ sampler_obj.type = "random"
    /\ Len(subjects_list) = NumRows
    /\ fs # <<>>

\* the states of section 4.6
Built == transform.built /\ ~subjects_dataset.built
Wrapped == subjects_dataset.built /\ ~patches_queue.built
Queued == patches_queue.built

\* The order of C6: Built, Wrapped and Queued follow in that order.  With train = False
\* the call ends in Wrapped: it returns the dataset over all of
\* subjects_list, no sampler and no queue is ever built and no augmentation
\* is in the chain.  With train = True, Queued comes only after Wrapped and
\* the queue is built over that same dataset.  From Built a call with
\* train = False does reach its return in Wrapped.
C6_OrderInvariant ==
    /\ subjects_dataset.built =>
           /\ transform.built /\ AssemblyDone
           /\ subjects_dataset.subjects = subjects_list
           /\ subjects_dataset.transform = transform
    /\ sampler_obj.built => subjects_dataset.built /\ parameters.train
    /\ patches_queue.built =>
           /\ parameters.train /\ sampler_obj.built
           /\ patches_queue.subjects_dataset = subjects_dataset
    /\ (transform.built /\ ~parameters.train) =>
           /\ transform.augmentations = <<>>
           /\ ~sampler_obj.built /\ ~patches_queue.built
           /\ pc \in { "wrap", "returned" }
    /\ (pc = "returned" /\ ~parameters.train) => (Wrapped /\ result = "SubjectsDataset")
    /\ (pc = "returned" /\ parameters.train) => (Queued /\ result = "Queue")

ChannelSavePath ==
    SavePath(subject_dict.subject_id, ToString(channel), parameters.loader_type,
             ExtensionOf(patient, channel))
LabelSavePath ==
    SavePath(subject_dict.subject_id, "label", parameters.loader_type,
             ExtensionOf(patient, channel))
MemorySavingResize == resize_images_flag /\ parameters.memory_save_mode

\* C7: the memory-saving resize is write-once.  A step that resizes a
\* channel or label in memory-saving mode leaves a file at
\* <loader_type>_resized_images/<subject_id>_<channel>_resized<ext>; a file
\* that exists, whichever row or call wrote it, keeps its modification time
\* in every step of every call.
C7_ResizedFilesWriteOnce ==
    [][ /\ \A p \in DOMAIN fs : p \in DOMAIN fs' /\ fs'[p] = fs[p]
        /\ (pc = "channel" /\ pc' # "raised" /\ MemorySavingResize)
               => ChannelSavePath \in DOMAIN fs'
        /\ (pc = "label" /\ pc' # "raised" /\ MemorySavingResize
                /\ parameters.has_label_header)
               => LabelSavePath \in DOMAIN fs'
        /\ (pc \in { "channel", "label" } /\ ~MemorySavingResize) => fs' = fs ]_vars

C7_Witness ==
    /\ call = 2
    /\ patient = 1
    /\ pc = "assemble"
    /\ MemorySavingResize /\ parameters.has_label_header
    /\ LabelSavePath \in DOMAIN fs
    /\ fs[LabelSavePath] < NumChannels + 2

\* C9: when a resize directive is present, in both output modes the label
\* is resampled with nearest neighbour and every channel with the default
\* interpolator, which is not nearest neighbour; the values of the resized
\* label are values of the original label.
C9_LabelResizedNearestNeighbor ==
    /\ img_resized.role = "label" =>
           /\ img_resized.interpolator = NearestNeighbor
           /\ Values(img_resized.data) \subseteq Values(img_resized.source)
    /\ img_resized.role = "channel" =>
           /\ img_resized.interpolator = DefaultInterpolator
           /\ img_resized.interpolator # NearestNeighbor
    /\ (pc = "assemble" /\ resize_images_flag) =>
           img_resized.role = IF parameters.has_label_header THEN "label" ELSE "channel"
    /\ (pc = "label" /\ resize_images_flag) => img_resized.role = "channel"
    /\ ~resize_images_flag => img_resized = NoImage

C9_Witness ==
    /\ pc = "assemble"
    /\ img_resized.role = "label"
    /\ img_resized.source = << 0, 2 >>
    /\ parameters.memory_save_mode

\* C10 as claimed: the caller's dataframe (cells, column labels, row index)
\* is the same after the call as before it (stated for the calls that return).
C10_DataframeUnchangedByCall ==
    (pc = "returned") => dataframe = caller_dataframe

\* C10 as amended: the call leaves the cells and the shape of the caller's
\* dataframe as they were, and replaces its column labels by 0..num_col-1
\* and its row index by 0..num_row-1; the labels are as before the call
\* exactly when they were positional already.
C10_DataframeRelabelledOnly ==
    (pc # "start") =>
        /\ dataframe.ids = caller_dataframe.ids
        /\ Len(dataframe.columns) = Len(caller_dataframe.columns)
        /\ Len(dataframe.index) = Len(caller_dataframe.index)
        /\ \A c \in DOMAIN dataframe.columns : dataframe.columns[c] = ToString(c - 1)
        /\ \A r \in DOMAIN dataframe.index : dataframe.index[r] = r - 1
        /\ (dataframe = caller_dataframe) <=>
               (/\ caller_dataframe.columns = PositionalColumns
                /\ caller_dataframe.index = PositionalIndex)

C10_Witness ==
    /\ pc = "returned"
    /\ caller_dataframe.columns = NamedColumns
    /\ dataframe.columns = PositionalColumns
    /\ dataframe.ids = caller_dataframe.ids

====
